---- MODULE Spec2Model ----
(***************************************************************************)
(* A model of py-caskdb: the record codec (format.py) and the log-         *)
(* structured storage engine DiskStorage (disk_store.py).                  *)
(*                                                                         *)
(* A Python str is a sequence of Unicode code points, a bytes object a     *)
(* sequence of naturals below 256.  A call that raises is modelled by a    *)
(* result record with ok = FALSE and the exception's name in err.          *)
(* TLC's integers are 32-bit signed, so the values packed into a header    *)
(* are drawn below 2^31.                                                   *)
(***************************************************************************)
EXTENDS Integers, Sequences, FiniteSets, TLC

VARIABLES
    file,        \* the bytes of the data file
    exists,      \* whether the data file exists on disk
    timestamp,   \* DiskStorage.timestamp, the write-sequence counter
    key_dir,     \* DiskStorage.key_dir: key -> (file_name, size, pos, timestamp)
    status,      \* "ready": an engine object exists; "failed": __init__ raised
    hist,        \* ghost: the records appended to the file, in call order
    base,        \* ghost: Len(hist) when the current engine was constructed
    calls,       \* ghost: the number of set calls made on the current engine
    ret,         \* the outcome of the last call
    triple,      \* codec specification: the (timestamp, key, value) drawn
    enc,         \* codec specification: what encode_kv returned
    buf,         \* codec specification: the byte buffer under test
    pc,          \* codec specification: the step reached
    thr          \* step specification: each calling thread's position and locals

vars == <<file, exists, timestamp, key_dir, status, hist, base, calls, ret,
          triple, enc, buf, pc, thr>>

engineVars == <<file, exists, timestamp, key_dir, status, hist, base, calls, ret>>
codecVars == <<triple, enc, buf, pc>>
fileVars == <<file, exists>>

(***************************************************************************)
(* Results of calls.                                                       *)
(***************************************************************************)
Ok(v) == [ok |-> TRUE, val |-> v, err |-> "none"]
Err(e) == [ok |-> FALSE, val |-> <<>>, err |-> e]

Min(a, b) == IF a < b THEN a ELSE b

\* data[from:to] of Python: 0-based, end exclusive, clipped to the buffer.
Slice(data, from, to) == SubSeq(data, from + 1, Min(to, Len(data)))

(***************************************************************************)
(* str.encode('utf-8') and bytes.decode('utf-8').                          *)
(***************************************************************************)
IsSurrogate(c) == c >= 55296 /\ c <= 57343

Utf8Char(c) ==
    IF c < 128 THEN <<c>>
    ELSE IF c < 2048 THEN <<192 + (c \div 64), 128 + (c % 64)>>
    ELSE IF c < 65536
         THEN <<224 + (c \div 4096), 128 + ((c \div 64) % 64), 128 + (c % 64)>>
    ELSE <<240 + (c \div 262144), 128 + ((c \div 4096) % 64),
           128 + ((c \div 64) % 64), 128 + (c % 64)>>

RECURSIVE Utf8Bytes(_)
Utf8Bytes(s) == IF s = <<>> THEN <<>> ELSE Utf8Char(Head(s)) \o Utf8Bytes(Tail(s))

\* str.encode('utf-8'): a lone surrogate cannot be encoded.
Utf8Encode(s) ==
    IF \E i \in 1..Len(s) : IsSurrogate(s[i])
    THEN Err("UnicodeEncodeError")
    ELSE Ok(Utf8Bytes(s))

IsCont(b) == b >= 128 /\ b <= 191

\* The length of the UTF-8 sequence that starts at b[i], 0 when it is invalid.
Utf8SeqLen(b, i) ==
    LET b0 == b[i]
        n == Len(b) - i + 1
    IN  IF b0 < 128 THEN 1
        ELSE IF b0 >= 194 /\ b0 <= 223
             THEN IF n >= 2 /\ IsCont(b[i + 1]) THEN 2 ELSE 0
        ELSE IF b0 >= 224 /\ b0 <= 239
             THEN IF /\ n >= 3
                     /\ IsCont(b[i + 1])
                     /\ IsCont(b[i + 2])
                     /\ (b0 = 224 => b[i + 1] >= 160)
                     /\ (b0 = 237 => b[i + 1] <= 159)
                  THEN 3 ELSE 0
        ELSE IF b0 >= 240 /\ b0 <= 244
             THEN IF /\ n >= 4
                     /\ IsCont(b[i + 1])
                     /\ IsCont(b[i + 2])
                     /\ IsCont(b[i + 3])
                     /\ (b0 = 240 => b[i + 1] >= 144)
                     /\ (b0 = 244 => b[i + 1] <= 143)
                  THEN 4 ELSE 0
        ELSE 0

Utf8CodePoint(b, i, n) ==
    IF n = 1 THEN b[i]
    ELSE IF n = 2 THEN (b[i] - 192) * 64 + (b[i + 1] - 128)
    ELSE IF n = 3
         THEN (b[i] - 224) * 4096 + (b[i + 1] - 128) * 64 + (b[i + 2] - 128)
    ELSE (b[i] - 240) * 262144 + (b[i + 1] - 128) * 4096
         + (b[i + 2] - 128) * 64 + (b[i + 3] - 128)

RECURSIVE Utf8DecodeFrom(_, _, _)
Utf8DecodeFrom(b, i, acc) ==
    IF i > Len(b) THEN Ok(acc)
    ELSE LET n == Utf8SeqLen(b, i)
         IN  IF n = 0 THEN Err("UnicodeDecodeError")
             ELSE Utf8DecodeFrom(b, i + n, Append(acc, Utf8CodePoint(b, i, n)))

Utf8Decode(b) == Utf8DecodeFrom(b, 1, <<>>)

(***************************************************************************)
(* struct.pack("<III", ...) and struct.unpack("<III", ...).                *)
(***************************************************************************)
HEADER_SIZE == 12

\* One "I" field: four bytes, least significant first.
PackU32(v) ==
    <<v % 256, (v \div 256) % 256, (v \div 65536) % 256, (v \div 16777216) % 256>>

UnpackU32(b, i) == b[i] + 256 * b[i + 1] + 65536 * b[i + 2] + 16777216 * b[i + 3]

\* "I" takes 0 <= v <= 2^32 - 1.
FitsU32(v) == v >= 0 /\ (v \div 65536) < 65536

\* Mutant: key_size and value_size packed in the wrong order.
encode_header_Swapped(ts, key_size, value_size) ==
    IF FitsU32(ts) /\ FitsU32(key_size) /\ FitsU32(value_size)
    THEN Ok(PackU32(ts) \o PackU32(value_size) \o PackU32(key_size))
    ELSE Err("struct.error")

encode_header(ts, key_size, value_size) ==
    IF FitsU32(ts) /\ FitsU32(key_size) /\ FitsU32(value_size)
    THEN Ok(PackU32(ts) \o PackU32(key_size) \o PackU32(value_size))
    ELSE Err("struct.error")

decode_header(data) ==
    IF Len(data) # HEADER_SIZE THEN Err("struct.error")
    ELSE Ok([timestamp |-> UnpackU32(data, 1),
             key_size |-> UnpackU32(data, 5),
             value_size |-> UnpackU32(data, 9)])

\* Mutant: an empty key or value is refused when the record is encoded.
encode_kv_RejectEmpty(ts, key, value) ==
    LET key_bytes == Utf8Encode(key)
        value_bytes == Utf8Encode(value)
    IN  IF ~key_bytes.ok THEN key_bytes
        ELSE IF ~value_bytes.ok THEN value_bytes
        ELSE IF key_bytes.val = <<>> \/ value_bytes.val = <<>> THEN Err("AssertionError")
        ELSE LET key_size == Len(key_bytes.val)
                 value_size == Len(value_bytes.val)
                 header == encode_header(ts, key_size, value_size)
             IN  IF ~header.ok THEN header
                 ELSE LET datum == header.val \o key_bytes.val \o value_bytes.val
                      IN  Ok([size |-> Len(datum) - 12, datum |-> datum])

encode_kv(ts, key, value) ==
    LET key_bytes == Utf8Encode(key)
        value_bytes == Utf8Encode(value)
    IN  IF ~key_bytes.ok THEN key_bytes
        ELSE IF ~value_bytes.ok THEN value_bytes
        ELSE LET key_size == Len(key_bytes.val)
                 value_size == Len(value_bytes.val)
                 header == encode_header(ts, key_size, value_size)
             IN  IF ~header.ok THEN header
                 ELSE LET datum == header.val \o key_bytes.val \o value_bytes.val
                      IN  Ok([size |-> Len(datum) - 12, datum |-> datum])

\* Mutant: bytes after the declared key and value are ignored.
decode_kv_Lenient(data) ==
    LET header == decode_header(Slice(data, 0, 12))
    IN  IF ~header.ok THEN header
        ELSE LET key_size == header.val.key_size
                 value_size == header.val.value_size
                 rest == Slice(data, 12, Len(data))
             IN  IF Len(rest) < key_size + value_size THEN Err("struct.error")
                 ELSE LET key == Utf8Decode(SubSeq(rest, 1, key_size))
                          value == Utf8Decode(SubSeq(rest, key_size + 1, key_size + value_size))
                      IN  IF ~key.ok THEN key
                          ELSE IF ~value.ok THEN value
                          ELSE Ok([timestamp |-> header.val.timestamp,
                                   key |-> key.val, value |-> value.val])

decode_kv(data) ==
    LET header == decode_header(Slice(data, 0, 12))
    IN  IF ~header.ok THEN header
        ELSE LET key_size == header.val.key_size
                 value_size == header.val.value_size
                 rest == Slice(data, 12, Len(data))
             IN  \* unpack(f"<{key_size}s{value_size}s", ...) takes exactly that many bytes
                 IF Len(rest) # key_size + value_size THEN Err("struct.error")
                 ELSE LET key == Utf8Decode(SubSeq(rest, 1, key_size))
                          value == Utf8Decode(SubSeq(rest, key_size + 1, key_size + value_size))
                      IN  IF ~key.ok THEN key
                          ELSE IF ~value.ok THEN value
                          ELSE Ok([timestamp |-> header.val.timestamp,
                                   key |-> key.val, value |-> value.val])

(***************************************************************************)
(* The inputs of the engine specification.                                 *)
(***************************************************************************)
MaxSets == 3     \* set calls per engine, and records in the file

\* The (key, value) pairs set is called with: "a" and e-acute (two bytes) are
\* keys, "x" and "y" + euro sign (1 + 3 bytes) values; "a" is written with two
\* values; one pair has an empty value and one an empty key.
Writes == {[key |-> <<97>>, value |-> <<120>>],
           [key |-> <<97>>, value |-> <<121, 8364>>],
           [key |-> <<233>>, value |-> <<120>>],
           [key |-> <<233>>, value |-> <<>>],
           [key |-> <<>>, value |-> <<120>>]}

\* The keys get is called with: the keys written, and "z", which never is.
Keys == {w.key : w \in Writes} \cup {<<122>>}

FILE_NAME == "data.db"

NoCall == [op |-> "none", key |-> <<>>, ok |-> TRUE, val |-> <<>>, err |-> "none",
           opened |-> FALSE]

(***************************************************************************)
(* DiskStorage.                                                            *)
(***************************************************************************)
\* Mutant: the header is left out of the record length.
ScanEntry_PayloadSize(key_size, value_size, pos, ts) ==
    <<FILE_NAME, key_size + value_size, pos, ts>>

\* The tuple __init__'s scan stores for a record.
ScanEntry(key_size, value_size, pos, ts) ==
    <<FILE_NAME, 12 + key_size + value_size, pos, ts>>

\* Mutant: the scan does not skip the value.
ScanSeek_KeyOnly(pos, key_size, value_size) == pos + 12 + key_size

\* Where the scan seeks to after a record's key.
ScanSeek(pos, key_size, value_size) == pos + 12 + key_size + value_size

\* Mutant: an entry is replaced only by a record with a larger timestamp.
ScanPut_NewestTimestamp(kd, key, entry) ==
    IF key \in DOMAIN kd /\ kd[key][4] >= entry[4] THEN kd
    ELSE (key :> entry) @@ kd

\* self.key_dir[key] = entry in the scan: inserts or overwrites.
ScanPut(kd, key, entry) == (key :> entry) @@ kd

\* The loop of key_dir_from, from file position pos with the directory kd so far.
RECURSIVE key_dir_loop(_, _, _)
key_dir_loop(f, pos, kd) ==
    LET header == Slice(f, pos, pos + 12)
    IN  IF header = <<>> THEN Ok(kd)
        ELSE LET h == decode_header(header)
             IN  IF ~h.ok THEN h
                 ELSE IF ~(h.val.key_size > 0) THEN Err("AssertionError")
                 ELSE IF ~(h.val.value_size > 0) THEN Err("AssertionError")
                 ELSE LET key_bytes == Slice(f, pos + 12, pos + 12 + h.val.key_size)
                      IN  IF ~(Len(key_bytes) > 0) THEN Err("AssertionError")
                          ELSE LET key == Utf8Decode(key_bytes)
                               IN  IF ~key.ok THEN key
                                   ELSE key_dir_loop(
                                          f,
                                          ScanSeek(pos, h.val.key_size, h.val.value_size),
                                          ScanPut(kd, key.val,
                                                  ScanEntry(h.val.key_size,
                                                            h.val.value_size, pos,
                                                            h.val.timestamp)))

key_dir_from(f) == key_dir_loop(f, 0, <<>>)

\* The largest timestamp of a directory, 0 for an empty one.
MaxTimestamp(kd) ==
    IF DOMAIN kd = {} THEN 0
    ELSE CHOOSE t \in {kd[k][4] : k \in DOMAIN kd} :
             \A k \in DOMAIN kd : kd[k][4] <= t

\* Mutant: the counter resumes from the largest timestamp found on disk.
DiskStorage_Resume(f, e) ==
    LET kd == IF e THEN key_dir_from(f) ELSE Ok(<<>>)
    IN  [ok |-> kd.ok, err |-> kd.err, timestamp |-> MaxTimestamp(kd.val),
         key_dir |-> kd.val]

\* __init__: the counter and the directory of a new engine over the file (f, e).
DiskStorage(f, e) ==
    LET kd == IF e THEN key_dir_from(f) ELSE Ok(<<>>)
    IN  [ok |-> kd.ok, err |-> kd.err, timestamp |-> 0, key_dir |-> kd.val]

next_timestamp == timestamp + 1

\* Mutant: the payload size is stored as the record length.
SetEntry_NoHeader(datum_sz, pos, ts) == <<FILE_NAME, datum_sz, pos, ts>>

\* Mutant: the counter's value before the increment is stored.
SetEntry_StaleTimestamp(datum_sz, pos, ts) == <<FILE_NAME, datum_sz + 12, pos, ts - 1>>

\* The tuple set stores for the record it is about to write.
SetEntry(datum_sz, pos, ts) == <<FILE_NAME, datum_sz + 12, pos, ts>>

\* Mutant: tell() on a file just opened for append answers 0.
AppendPos_Zero(f) == 0

\* open(file_name, 'ab'), file.tell(): the end of the file, 0 for a new file.
AppendPos(f) == Len(f)

\* Mutant: the file is opened 'wb', which truncates it.
AppendBytes_Truncating(f, datum) == datum

\* file.write(datum) on a file opened 'ab'.
AppendBytes(f, datum) == f \o datum

\* Mutant: the assertions on key, timestamp and file name are left out.
get_found_NoAsserts(key) ==
    LET e == key_dir[key]
    IN  IF ~exists
        THEN [ok |-> FALSE, val |-> <<>>, err |-> "FileNotFoundError", opened |-> TRUE]
        ELSE LET datum == Slice(file, e[3], e[3] + e[2])
                 d == decode_kv(datum)
             IN  IF ~d.ok
                 THEN [ok |-> FALSE, val |-> <<>>, err |-> d.err, opened |-> TRUE]
                 ELSE [ok |-> TRUE, val |-> d.val.value, err |-> "none",
                       opened |-> TRUE]

\* get(key) for a key of the directory: the record is read and checked.
get_found(key) ==
    LET e == key_dir[key]
    IN  IF e[1] # FILE_NAME
        THEN [ok |-> FALSE, val |-> <<>>, err |-> "AssertionError", opened |-> FALSE]
        ELSE IF ~exists
        THEN [ok |-> FALSE, val |-> <<>>, err |-> "FileNotFoundError", opened |-> TRUE]
        ELSE LET datum == Slice(file, e[3], e[3] + e[2])
                 d == decode_kv(datum)
             IN  IF ~d.ok
                 THEN [ok |-> FALSE, val |-> <<>>, err |-> d.err, opened |-> TRUE]
                 ELSE IF ~(key = d.val.key) \/ ~(e[4] = d.val.timestamp)
                 THEN [ok |-> FALSE, val |-> <<>>, err |-> "AssertionError",
                       opened |-> TRUE]
                 ELSE [ok |-> TRUE, val |-> d.val.value, err |-> "none",
                       opened |-> TRUE]

\* Mutant: the file is opened before the directory is consulted.
get_OpenFirst(key) ==
    IF key \notin DOMAIN key_dir
    THEN [ok |-> exists, val |-> <<>>,
          err |-> IF exists THEN "none" ELSE "FileNotFoundError", opened |-> TRUE]
    ELSE get_found(key)

\* The result of get(key) in the current state; opened tells whether the file
\* was opened.
get(key) ==
    IF key \notin DOMAIN key_dir
    THEN [ok |-> TRUE, val |-> <<>>, err |-> "none", opened |-> FALSE]
    ELSE get_found(key)

CallResult(op, key, r) ==
    [op |-> op, key |-> key, ok |-> r.ok, val |-> r.val, err |-> r.err,
     opened |-> r.opened]

(***************************************************************************)
(* The engine's operations.                                                *)
(***************************************************************************)
Set(key, value) ==
    /\ status = "ready"
    /\ calls < MaxSets
    /\ Len(hist) < MaxSets
    /\ LET ts == next_timestamp
           rec == encode_kv(ts, key, value)
       IN  /\ timestamp' = ts
           /\ calls' = calls + 1
           /\ IF ~rec.ok
              THEN /\ ret' = [op |-> "set", key |-> key, ok |-> FALSE, val |-> <<>>,
                              err |-> rec.err, opened |-> FALSE]
                   /\ UNCHANGED <<file, exists, key_dir, hist>>
              ELSE LET pos == AppendPos(file)
                   IN  /\ key_dir' = (key :> SetEntry(rec.val.size, pos, ts)) @@ key_dir
                       /\ file' = AppendBytes(file, rec.val.datum)
                       /\ exists' = TRUE
                       /\ hist' = Append(hist, [key |-> key, value |-> value,
                                                n |-> calls + 1, pos |-> Len(file),
                                                datum |-> rec.val.datum])
                       /\ ret' = [op |-> "set", key |-> key, ok |-> TRUE, val |-> <<>>,
                                  err |-> "none", opened |-> TRUE]
    /\ UNCHANGED <<status, base, codecVars, thr>>

Get(key) ==
    /\ status = "ready"
    /\ ret' = CallResult("get", key, get(key))
    /\ UNCHANGED <<file, exists, timestamp, key_dir, status, hist, base, calls, codecVars, thr>>

\* Mutant: close drops the directory.
Close_ClearsDirectory ==
    /\ status = "ready"
    /\ ret' = [op |-> "close", key |-> <<>>, ok |-> exists, val |-> <<>>,
               err |-> IF exists THEN "none" ELSE "FileNotFoundError",
               opened |-> exists]
    /\ key_dir' = <<>>
    /\ UNCHANGED <<file, exists, timestamp, status, hist, base, calls, codecVars, thr>>

\* close(): open(file_name, 'rb+') needs the file to exist.
Close ==
    /\ status = "ready"
    /\ ret' = [op |-> "close", key |-> <<>>, ok |-> exists, val |-> <<>>,
               err |-> IF exists THEN "none" ELSE "FileNotFoundError",
               opened |-> exists]
    /\ UNCHANGED <<file, exists, timestamp, key_dir, status, hist, base, calls, codecVars, thr>>

\* A fresh engine is constructed over the same file; the old one is dropped.
Restart ==
    /\ LET d == DiskStorage(file, exists)
       IN  /\ status' = IF d.ok THEN "ready" ELSE "failed"
           /\ timestamp' = d.timestamp
           /\ key_dir' = d.key_dir
           /\ ret' = [op |-> "init", key |-> <<>>, ok |-> d.ok, val |-> <<>>,
                      err |-> d.err, opened |-> exists]
    /\ base' = Len(hist)
    /\ calls' = 0
    /\ UNCHANGED <<file, exists, hist, codecVars, thr>>

Init ==
    /\ file = <<>>
    /\ exists \in BOOLEAN
    /\ LET d == DiskStorage(file, exists)
       IN  /\ status = "ready"
           /\ timestamp = d.timestamp
           /\ key_dir = d.key_dir
    /\ hist = <<>>
    /\ base = 0
    /\ calls = 0
    /\ ret = NoCall
    /\ triple = <<>>
    /\ enc = <<>>
    /\ buf = <<>>
    /\ pc = "engine"
    /\ thr = <<>>

Next ==
    \/ \E w \in Writes : Set(w.key, w.value)
    \/ \E key \in Keys : Get(key)
    \/ Close
    \/ Restart

Spec == Init /\ [][Next]_vars

(***************************************************************************)
(* Ghost views of the write history.                                       *)
(***************************************************************************)
\* The records the current engine wrote.
Mine == (base + 1)..Len(hist)

\* hist[i] is the last record written for its key.
IsLast(i) == \A j \in (i + 1)..Len(hist) : hist[j].key # hist[i].key

WrittenKeys == {hist[i].key : i \in 1..Len(hist)}

\* Every record in the file has a non-empty key and a non-empty value.
NoEmpty == \A i \in 1..Len(hist) : hist[i].key # <<>> /\ hist[i].value # <<>>

\* The bytes the file holds where hist[i] was written.
BytesAt(i) == Slice(file, hist[i].pos, hist[i].pos + Len(hist[i].datum))

\* The header fields read directly from the file at byte offset pos.
StoredTimestamp(pos) == UnpackU32(file, pos + 1)
StoredKeySize(pos) == UnpackU32(file, pos + 5)
StoredValueSize(pos) == UnpackU32(file, pos + 9)

(***************************************************************************)
(* C1. Write-then-read: on a ready engine, get(k) of a key this engine     *)
(* has set returns the value of its latest set(k, ...), whatever was set   *)
(* on other keys since; and a get call that was made returned that value.  *)
(***************************************************************************)
C1_WriteThenRead ==
    status = "ready" =>
        /\ \A i \in Mine :
              IsLast(i) => /\ get(hist[i].key).ok
                           /\ get(hist[i].key).val = hist[i].value
        /\ \A i \in Mine :
              (IsLast(i) /\ ret.op = "get" /\ ret.key = hist[i].key)
                  => (ret.ok /\ ret.val = hist[i].value)

\* A get of a key made after a later set on another key, both by this engine.
C1_Witness ==
    /\ status = "ready"
    /\ ret.op = "get"
    /\ \E i \in Mine : /\ hist[i].key = ret.key
                       /\ IsLast(i)
                       /\ i < Len(hist)
                       /\ ret.val = hist[i].value
                       /\ ret.val # <<>>

(***************************************************************************)
(* C2. Last-write-wins: when this engine set a key twice, get returns the  *)
(* value of the later set, and the file holds the bytes of both records    *)
(* where they were written, the earlier ones unmodified.                   *)
(***************************************************************************)
C2_LastWriteWins ==
    status = "ready" =>
        \A i \in Mine : \A j \in Mine :
            (i < j /\ hist[i].key = hist[j].key /\ IsLast(j))
                => /\ get(hist[j].key).ok
                   /\ get(hist[j].key).val = hist[j].value
                   /\ BytesAt(i) = hist[i].datum
                   /\ BytesAt(j) = hist[j].datum
                   /\ hist[i].pos + Len(hist[i].datum) <= hist[j].pos

\* A key set twice with different values by this engine, then read.
C2_Witness ==
    /\ status = "ready"
    /\ ret.op = "get"
    /\ \E i \in Mine : \E j \in Mine :
          /\ i < j
          /\ hist[i].key = hist[j].key
          /\ hist[i].value # hist[j].value
          /\ IsLast(j)
          /\ ret.key = hist[j].key
          /\ ret.val = hist[j].value

(***************************************************************************)
(* C3. Persistence across restart.                                         *)
(***************************************************************************)
\* The claim as stated: constructing a fresh engine over a file written by set
\* succeeds, and its get returns the last value written for every key.
C3_Original ==
    ret.op = "init" =>
        /\ ret.ok
        /\ \A i \in 1..Len(hist) :
              IsLast(i) => /\ get(hist[i].key).ok
                           /\ get(hist[i].key).val = hist[i].value

\* C3, amended: when every record written has a non-empty key and a non-empty
\* value, constructing a fresh engine over the file succeeds and its get
\* returns the last value written for every key.
C3_Persistence ==
    (ret.op = "init" /\ NoEmpty) =>
        /\ ret.ok
        /\ status = "ready"
        /\ \A i \in 1..Len(hist) :
              IsLast(i) => /\ get(hist[i].key).ok
                           /\ get(hist[i].key).val = hist[i].value

\* A fresh engine over a file that holds two distinct keys.
C3_Witness ==
    /\ ret.op = "init"
    /\ ret.ok
    /\ NoEmpty
    /\ base = Len(hist)
    /\ Cardinality(WrittenKeys) >= 2

(***************************************************************************)
(* C4. Unknown key: get of a key that is not in the directory returns the  *)
(* empty string, raises nothing and does not open the file.                *)
(***************************************************************************)
C4_UnknownKey ==
    status = "ready" =>
        /\ \A k \in Keys :
              k \notin DOMAIN key_dir
                  => /\ get(k).ok
                     /\ get(k).val = <<>>
                     /\ ~get(k).opened
        /\ (ret.op = "get" /\ ret.key \notin DOMAIN key_dir)
              => (ret.ok /\ ret.val = <<>> /\ ~ret.opened)
        /\ \A k \in Keys : k \notin WrittenKeys => k \notin DOMAIN key_dir

\* A get of an unknown key on an engine whose directory holds other keys.
C4_Witness ==
    /\ status = "ready"
    /\ ret.op = "get"
    /\ ret.key \notin DOMAIN key_dir
    /\ key_dir # <<>>

(***************************************************************************)
(* C5. Key-directory invariant: the directory has exactly the keys of the  *)
(* records in the file, and the entry of a key holds the offset of the     *)
(* last record for that key, 12 + key_size + value_size of that record and *)
(* the timestamp stored in it.                                             *)
(***************************************************************************)
C5_KeyDirInvariant ==
    status = "ready" =>
        /\ DOMAIN key_dir = WrittenKeys
        /\ \A i \in 1..Len(hist) :
              IsLast(i) =>
                  LET e == key_dir[hist[i].key]
                      pos == hist[i].pos
                  IN  /\ e[3] = pos
                      /\ e[2] = 12 + StoredKeySize(pos) + StoredValueSize(pos)
                      /\ e[4] = StoredTimestamp(pos)
                      /\ Slice(file, pos + 12, pos + 12 + StoredKeySize(pos))
                            = Utf8Bytes(hist[i].key)
                      /\ pos + e[2] <= Len(file)

\* A directory that a set updated for a key that already had a record.
C5_Witness ==
    /\ status = "ready"
    /\ ret.op = "set"
    /\ \E i \in 1..Len(hist) : \E j \in 1..Len(hist) :
          i < j /\ hist[i].key = hist[j].key /\ j = Len(hist)
    /\ Cardinality(DOMAIN key_dir) >= 2

(***************************************************************************)
(* C6. Rebuildable cache.                                                  *)
(***************************************************************************)
\* The claim as stated: in every state of a ready engine the startup scan of
\* the current file completes and yields the engine's directory.
C6_Original ==
    status = "ready" =>
        /\ DiskStorage(file, exists).ok
        /\ DiskStorage(file, exists).key_dir = key_dir

\* C6, amended: in every state of a ready engine whose file holds only records
\* with a non-empty key and a non-empty value, the startup scan of the current
\* file completes and yields the engine's directory.
C6_RebuildableCache ==
    (status = "ready" /\ NoEmpty) =>
        /\ DiskStorage(file, exists).ok
        /\ DiskStorage(file, exists).key_dir = key_dir

\* A directory built by set calls only, one key overwritten.
C6_Witness ==
    /\ status = "ready"
    /\ NoEmpty
    /\ base = 0
    /\ Len(hist) >= 3
    /\ Cardinality(DOMAIN key_dir) = 2

(***************************************************************************)
(* C10. Write-sequence counter: a new engine's counter is 0 whatever the   *)
(* file holds, the counter equals the number of set calls made on the      *)
(* engine, the record written by the n-th set call stores timestamp n, and *)
(* the timestamps one engine wrote increase strictly in file order.        *)
(***************************************************************************)
C10_WriteSequence ==
    status = "ready" =>
        /\ timestamp = calls
        /\ (ret.op = "init" => timestamp = 0)
        /\ \A i \in Mine : StoredTimestamp(hist[i].pos) = hist[i].n
        /\ \A i \in Mine : \A j \in Mine :
              i < j => StoredTimestamp(hist[i].pos) < StoredTimestamp(hist[j].pos)

\* An engine constructed over a file that holds records, which then wrote two.
C10_Witness ==
    /\ status = "ready"
    /\ base > 0
    /\ Len(hist) >= base + 2
    /\ StoredTimestamp(hist[base].pos) >= 1
    /\ StoredTimestamp(hist[base + 1].pos) = 1

(***************************************************************************)
(* C11. Append-only log: a completed set extends the file by exactly one   *)
(* record of 12 + key_size + value_size bytes at the previous end of file  *)
(* and leaves the bytes before it unchanged; get, close and construction   *)
(* change neither the file's contents nor its existence; the file is the   *)
(* records written, back to back in call order.                            *)
(***************************************************************************)
RECURSIVE ConcatData(_)
ConcatData(h) == IF h = <<>> THEN <<>> ELSE Head(h).datum \o ConcatData(Tail(h))

C11_SetAppends ==
    hist' # hist =>
        /\ ret'.op = "set"
        /\ exists'
        /\ Len(file') = Len(file) + 12 + UnpackU32(file', Len(file) + 5)
                                       + UnpackU32(file', Len(file) + 9)
        /\ UnpackU32(file', Len(file) + 5) = Len(Utf8Bytes(ret'.key))
        /\ UnpackU32(file', Len(file) + 9) = Len(Utf8Bytes(hist'[Len(hist')].value))
        /\ SubSeq(file', 1, Len(file)) = file
        /\ SubSeq(file', Len(file) + 1, Len(file')) = hist'[Len(hist')].datum

C11_OthersKeepFile ==
    (hist' = hist \/ ret'.op \in {"get", "close", "init"}) =>
        (file' = file /\ exists' = exists)

C11_AppendOnly ==
    /\ [][C11_SetAppends /\ C11_OthersKeepFile]_vars
    /\ [](file = ConcatData(hist))

\* A second record was appended behind a first one.
C11_Witness ==
    /\ ret.op = "set"
    /\ Len(hist) >= 2
    /\ hist[Len(hist)].pos = Len(hist[1].datum)
    /\ Len(file) = Len(hist[1].datum) + Len(hist[2].datum)

(***************************************************************************)
(* C12. The read-time consistency check never fires for a single owner:    *)
(* for every key of a ready engine's directory the entry names the         *)
(* engine's file, and the bytes at (offset, record_length) decode to that  *)
(* key and to the entry's timestamp, so get raises no AssertionError.      *)
(***************************************************************************)
C12_ConsistencyCheck ==
    status = "ready" =>
        /\ \A k \in DOMAIN key_dir :
              LET e == key_dir[k]
                  d == decode_kv(Slice(file, e[3], e[3] + e[2]))
              IN  /\ e[1] = FILE_NAME
                  /\ d.ok
                  /\ d.val.key = k
                  /\ d.val.timestamp = e[4]
                  /\ get(k).ok
        /\ ret.op = "get" => ret.err # "AssertionError"

\* A get on a restarted engine of a key with a superseded record.
C12_Witness ==
    /\ status = "ready"
    /\ base > 0
    /\ ret.op = "get"
    /\ ret.key \in DOMAIN key_dir
    /\ ret.ok
    /\ \E i \in 1..Len(hist) : hist[i].key = ret.key /\ ~IsLast(i)

(***************************************************************************)
(* C15. Recency is decided by file position, not by timestamp: after a     *)
(* successful construction the entry of every key is that of the key's     *)
(* last record in file order, and get returns that record's value, also    *)
(* when an earlier record for the key stores a larger timestamp.           *)
(***************************************************************************)
\* hist[j] is an earlier record for hist[i]'s key that stores a larger timestamp.
OlderButNewerStamp(j, i) ==
    /\ j < i
    /\ hist[j].key = hist[i].key
    /\ StoredTimestamp(hist[j].pos) > StoredTimestamp(hist[i].pos)

C15_RecencyByPosition ==
    (ret.op = "init" /\ ret.ok) =>
        \A i \in 1..Len(hist) :
            IsLast(i) =>
                /\ key_dir[hist[i].key][3] = hist[i].pos
                /\ key_dir[hist[i].key][4] = StoredTimestamp(hist[i].pos)
                /\ \A j \in 1..Len(hist) :
                      OlderButNewerStamp(j, i) =>
                          /\ key_dir[hist[i].key][4] < StoredTimestamp(hist[j].pos)
                          /\ get(hist[i].key).ok
                          /\ get(hist[i].key).val = hist[i].value

\* Engine A set the key twice, engine B set it to another value with
\* timestamp 1, and engine C was constructed over the file.
C15_Witness ==
    /\ ret.op = "init"
    /\ ret.ok
    /\ Len(hist) = 3
    /\ OlderButNewerStamp(2, 3)
    /\ StoredTimestamp(hist[3].pos) = 1
    /\ hist[2].value # hist[3].value
    /\ get(hist[3].key).val = hist[3].value

(***************************************************************************)
(* C16. Empty keys and values are rejected by the scan, not by set: a set  *)
(* with an empty key or an empty value succeeds, appends a record whose    *)
(* key_size or value_size is 0 and updates the directory; every later      *)
(* construction over the file raises AssertionError and no engine comes    *)
(* up.                                                                     *)
(***************************************************************************)
C16_EmptyRejectedAtScan ==
    /\ (status = "ready" /\ ret.op = "set") =>
          /\ ret.ok
          /\ calls = Len(hist) - base
          /\ hist[Len(hist)].key = ret.key
          /\ (hist[Len(hist)].key = <<>> \/ hist[Len(hist)].value = <<>>) =>
                /\ ret.key \in DOMAIN key_dir
                /\ key_dir[ret.key][3] = hist[Len(hist)].pos
                /\ StoredKeySize(hist[Len(hist)].pos)
                      = Len(Utf8Bytes(hist[Len(hist)].key))
                /\ StoredValueSize(hist[Len(hist)].pos)
                      = Len(Utf8Bytes(hist[Len(hist)].value))
                /\ \/ StoredKeySize(hist[Len(hist)].pos) = 0
                   \/ StoredValueSize(hist[Len(hist)].pos) = 0
    /\ (ret.op = "init" /\ ~NoEmpty)
          => /\ ~ret.ok
             /\ ret.err = "AssertionError"
             /\ status = "failed"
             /\ key_dir = <<>>

\* A construction over a file whose second of three records has an empty
\* value, the others being well-formed.
C16_Witness ==
    /\ ret.op = "init"
    /\ ~ret.ok
    /\ Len(hist) = 3
    /\ hist[2].value = <<>>
    /\ hist[1].key # <<>> /\ hist[1].value # <<>>
    /\ hist[3].key # <<>> /\ hist[3].value # <<>>

(***************************************************************************)
(* C17. get and close are read-only: a get or close call leaves the        *)
(* directory, the counter and the file as they were, so the calls that     *)
(* follow a close see the state that preceded it.                          *)
(***************************************************************************)
C17_ReadOnly ==
    [][ret'.op \in {"get", "close"} =>
          /\ key_dir' = key_dir
          /\ timestamp' = timestamp
          /\ file' = file
          /\ exists' = exists
          /\ status' = status
          /\ hist' = hist]_vars

\* A close that succeeded on an engine whose directory holds keys.
C17_Witness ==
    /\ status = "ready"
    /\ ret.op = "close"
    /\ ret.ok
    /\ Cardinality(DOMAIN key_dir) >= 2
    /\ timestamp >= 2

(***************************************************************************)
(* C18. close() is available in every ready state: a close call on a       *)
(* constructed engine completes without error, also over a path where no   *)
(* file exists.                                                            *)
(***************************************************************************)
C18_CloseAvailable == ret.op = "close" => ret.ok

(***************************************************************************)
(* The codec specification: a (timestamp, key, value) is drawn and         *)
(* encoded; the buffer is handed to decode_kv or decode_header as it is,   *)
(* cut short, extended by a byte, or with one byte replaced.               *)
(***************************************************************************)
\* 2147483647 is the largest integer TLC represents; -1 is refused by pack.
CodecTimestamps == {-1, 0, 1, 255, 256, 65535, 65536, 16777216, 2147483647}
\* "", "a", e-acute, "a" + euro sign, a lone surrogate, U+1F600 (four bytes).
CodecKeys == {<<>>, <<97>>, <<233>>, <<97, 8364>>, <<55296>>, <<128512>>}
\* "", "x", "y" + euro sign, two e-acute.
CodecValues == {<<>>, <<120>>, <<121, 8364>>, <<233, 233>>}
\* The values a byte of the buffer is replaced with.
CodecBytes == {0, 1, 128, 255}

\* The bytes of the buffer that may be replaced: the low byte of key_size and
\* of value_size, and the key and value bytes.
CodecPositions(b) == {5, 9} \cup (13..Len(b))

InitCodec ==
    /\ file = <<>>
    /\ exists = FALSE
    /\ status = "none"
    /\ timestamp = 0
    /\ key_dir = <<>>
    /\ hist = <<>>
    /\ base = 0
    /\ calls = 0
    /\ ret = NoCall
    /\ triple \in [timestamp : CodecTimestamps, key : CodecKeys, value : CodecValues]
    /\ enc = <<>>
    /\ buf = <<>>
    /\ pc = "start"
    /\ thr = <<>>

Encode ==
    /\ pc = "start"
    /\ enc' = encode_kv(triple.timestamp, triple.key, triple.value)
    /\ buf' = IF enc'.ok THEN enc'.val.datum ELSE <<>>
    /\ pc' = IF enc'.ok THEN "encoded" ELSE "raised"
    /\ UNCHANGED <<engineVars, thr, triple>>

Truncate(n) ==
    /\ pc = "encoded"
    /\ n < Len(buf)
    /\ buf' = Slice(buf, 0, n)
    /\ pc' = "mangled"
    /\ UNCHANGED <<engineVars, thr, triple, enc>>

Extend(b) ==
    /\ pc = "encoded"
    /\ buf' = Append(buf, b)
    /\ pc' = "mangled"
    /\ UNCHANGED <<engineVars, thr, triple, enc>>

Replace(i, b) ==
    /\ pc = "encoded"
    /\ buf[i] # b
    /\ buf' = [buf EXCEPT ![i] = b]
    /\ pc' = "mangled"
    /\ UNCHANGED <<engineVars, thr, triple, enc>>

DecodeKv ==
    /\ pc \in {"encoded", "mangled"}
    /\ ret' = [op |-> "decode_kv", res |-> decode_kv(buf)]
    /\ pc' = IF pc = "encoded" THEN "decoded" ELSE "decoded_mangled"
    /\ UNCHANGED <<file, exists, timestamp, key_dir, status, hist, base, calls,
                   triple, enc, buf, thr>>

DecodeHeader ==
    /\ pc \in {"encoded", "mangled"}
    /\ ret' = [op |-> "decode_header", res |-> decode_header(buf)]
    /\ pc' = "header"
    /\ UNCHANGED <<file, exists, timestamp, key_dir, status, hist, base, calls,
                   triple, enc, buf, thr>>

NextCodec ==
    \/ Encode
    \/ \E n \in 0..(Len(buf) - 1) : Truncate(n)
    \/ \E b \in CodecBytes : Extend(b)
    \/ \E i \in CodecPositions(buf), b \in CodecBytes : Replace(i, b)
    \/ DecodeKv
    \/ DecodeHeader

SpecCodec == InitCodec /\ [][NextCodec]_vars

\* The header fields read directly from the buffer.
BufKeySize == UnpackU32(buf, 5)
BufValueSize == UnpackU32(buf, 9)
BufKey == SubSeq(buf, 13, 12 + BufKeySize)
BufValue == SubSeq(buf, 13 + BufKeySize, 12 + BufKeySize + BufValueSize)

(***************************************************************************)
(* C8. Codec round-trip: for a timestamp that fits 32 unsigned bits and a  *)
(* non-empty key and value, decode_kv of encode_kv's buffer returns the    *)
(* timestamp, key and value; the buffer is 12 + key_size + value_size      *)
(* bytes long and the size encode_kv returns is key_size + value_size.     *)
(***************************************************************************)
C8_RoundTrip ==
    /\ pc = "raised" =>
          \/ triple.timestamp < 0
          \/ \E i \in 1..Len(triple.key) : IsSurrogate(triple.key[i])
    /\ (/\ pc = "decoded"
        /\ triple.timestamp >= 0
        /\ triple.key # <<>>
        /\ triple.value # <<>>)
        => /\ ret.op = "decode_kv"
           /\ ret.res.ok
           /\ ret.res.val = [timestamp |-> triple.timestamp, key |-> triple.key,
                             value |-> triple.value]
           /\ BufKeySize = Len(Utf8Bytes(triple.key))
           /\ BufValueSize = Len(Utf8Bytes(triple.value))
           /\ Len(enc.val.datum) = 12 + BufKeySize + BufValueSize
           /\ enc.val.size = BufKeySize + BufValueSize

\* A round trip of the largest timestamp with a multi-byte key and value.
C8_Witness ==
    /\ pc = "decoded"
    /\ triple.timestamp = 2147483647
    /\ triple.key = <<97, 8364>>
    /\ triple.value = <<233, 233>>
    /\ ret.res.ok
    /\ Len(buf) = 20

(***************************************************************************)
(* C9. Decode boundary.                                                    *)
(***************************************************************************)
\* The claim as stated: decode_kv succeeds on every buffer that is at least
\* 12 + key_size + value_size bytes long and whose slices are valid UTF-8.
C9_Original ==
    (/\ pc \in {"decoded", "decoded_mangled"}
     /\ Len(buf) >= 12
     /\ Len(buf) >= 12 + BufKeySize + BufValueSize
     /\ Utf8Decode(BufKey).ok
     /\ Utf8Decode(BufValue).ok)
        => ret.res.ok

\* C9, amended: decode_kv fails with struct.error when the buffer is shorter
\* than 12 bytes or its length differs from the 12 + key_size + value_size its
\* header declares (shorter or longer); when the length is exactly that, it
\* succeeds if and only if both slices are valid UTF-8, and returns the
\* header's timestamp and the key and value sliced at key_size and value_size
\* bytes after the header.  decode_header fails unless it is given exactly 12
\* bytes, so it fails on fewer than 12.
C9_DecodeBoundary ==
    /\ pc \in {"decoded", "decoded_mangled"} =>
          IF Len(buf) < 12
          THEN ~ret.res.ok /\ ret.res.err = "struct.error"
          ELSE IF Len(buf) # 12 + BufKeySize + BufValueSize
          THEN ~ret.res.ok /\ ret.res.err = "struct.error"
          ELSE /\ ret.res.ok <=> (Utf8Decode(BufKey).ok /\ Utf8Decode(BufValue).ok)
               /\ ~ret.res.ok => ret.res.err = "UnicodeDecodeError"
               /\ ret.res.ok => /\ Utf8Bytes(ret.res.val.key) = BufKey
                                /\ Utf8Bytes(ret.res.val.value) = BufValue
                                /\ ret.res.val.timestamp = UnpackU32(buf, 1)
    /\ pc = "header" =>
          /\ ret.res.ok <=> Len(buf) = 12
          /\ ~ret.res.ok => ret.res.err = "struct.error"

\* decode_kv was handed a buffer one byte longer than its header declares.
C9_Witness ==
    /\ pc = "decoded_mangled"
    /\ Len(buf) > 12
    /\ Len(buf) = 12 + BufKeySize + BufValueSize + 1
    /\ BufKeySize > 0
    /\ BufValueSize > 0
    /\ ~ret.res.ok

(***************************************************************************)
(* The scan specification: an engine is constructed over a file that holds *)
(* a prefix of two records laid back to back, and read.                    *)
(***************************************************************************)
\* The records (1, "a", "x"), (2, e-acute, "y" + euro sign), (7, "ab", "x").
ScanRecords ==
    {encode_kv(1, <<97>>, <<120>>).val.datum,
     encode_kv(2, <<233>>, <<121, 8364>>).val.datum,
     encode_kv(7, <<97, 98>>, <<120>>).val.datum}

ScanFiles ==
    UNION {{Slice(r1 \o r2, 0, n) : n \in 0..Len(r1 \o r2)} :
               r1 \in ScanRecords, r2 \in ScanRecords}

ScanKeys == {<<97>>, <<233>>, <<97, 98>>}

InitScan ==
    /\ file \in ScanFiles
    /\ exists = TRUE
    /\ status = "none"
    /\ timestamp = 0
    /\ key_dir = <<>>
    /\ hist = <<>>
    /\ base = 0
    /\ calls = 0
    /\ ret = NoCall
    /\ triple = <<>>
    /\ enc = <<>>
    /\ buf = <<>>
    /\ pc = "scan"
    /\ thr = <<>>

NextScan ==
    \/ Restart
    \/ \E key \in ScanKeys : Get(key)

SpecScan == InitScan /\ [][NextScan]_vars

\* The file from byte offset pos on is zero or more complete records.
RECURSIVE IsRecordLog(_, _)
IsRecordLog(f, pos) ==
    \/ pos = Len(f)
    \/ /\ pos + 12 <= Len(f)
       /\ pos + 12 + UnpackU32(f, pos + 5) + UnpackU32(f, pos + 9) <= Len(f)
       /\ IsRecordLog(f, pos + 12 + UnpackU32(f, pos + 5) + UnpackU32(f, pos + 9))

(***************************************************************************)
(* C7. Fail-fast on an invalid file: constructing an engine over a file    *)
(* that is not a concatenation of complete records raises, and no engine   *)
(* with a directory comes up.                                              *)
(***************************************************************************)
C7_FailFast ==
    (ret.op = "init" /\ ~IsRecordLog(file, 0)) =>
        /\ ~ret.ok
        /\ status = "failed"
        /\ key_dir = <<>>

(***************************************************************************)
(* The step specification: set runs statement by statement, called by one  *)
(* thread or by two threads on the same engine, and its write may fail     *)
(* after any number of the record's bytes.  get is called when no set is   *)
(* in progress.                                                            *)
(***************************************************************************)
MaxStepCalls == 2     \* set calls made on the engine, over all threads

Threads == {1, 2}

\* "a" is written with two values of equal length, and "b" with one of them.
StepWrites == {[key |-> <<97>>, value |-> <<120>>],
               [key |-> <<97>>, value |-> <<119>>],
               [key |-> <<98>>, value |-> <<120>>]}

StepKeys == {w.key : w \in StepWrites}

Idle == [pc |-> "idle", key |-> <<>>, value |-> <<>>, n |-> 0, tmp |-> 0, ts |-> 0,
         size |-> 0, datum |-> <<>>, pos |-> 0]

\* No set call is in progress.
Quiescent == \A t \in Threads : thr[t].pc \in {"idle", "done", "raised", "failed", "off"}

InitSteps ==
    /\ file = <<>>
    /\ exists = FALSE
    /\ status = "ready"
    /\ timestamp = DiskStorage(file, exists).timestamp
    /\ key_dir = DiskStorage(file, exists).key_dir
    /\ hist = <<>>
    /\ base = 0
    /\ calls = 0
    /\ ret = NoCall
    /\ triple = <<>>
    /\ enc = <<>>
    /\ buf = <<>>
    /\ pc = "steps"
    /\ thr \in {[t \in Threads |-> IF t = 1 THEN Idle ELSE [Idle EXCEPT !.pc = p]] :
                  p \in {"idle", "off"}}

\* A thread calls set(key, value); the call has no outcome yet.
Call(t, key, value) ==
    /\ thr[t].pc \in {"idle", "done", "raised", "failed"}
    /\ calls < MaxStepCalls
    /\ calls' = calls + 1
    /\ thr' = [thr EXCEPT ![t] = [Idle EXCEPT !.pc = "load", !.key = key,
                                              !.value = value, !.n = calls + 1]]
    /\ ret' = NoCall
    /\ UNCHANGED <<fileVars, timestamp, key_dir, status, hist, base, codecVars>>

\* next_timestamp, self.timestamp += 1: the attribute is read ...
IncLoad(t) ==
    /\ thr[t].pc = "load"
    /\ thr' = [thr EXCEPT ![t].pc = "store", ![t].tmp = timestamp]
    /\ UNCHANGED <<engineVars, codecVars>>

\* ... and the sum is stored.
IncStore(t) ==
    /\ thr[t].pc = "store"
    /\ timestamp' = thr[t].tmp + 1
    /\ thr' = [thr EXCEPT ![t].pc = "return"]
    /\ UNCHANGED <<fileVars, key_dir, status, hist, base, calls, ret, codecVars>>

\* return self.timestamp, and encode_kv on the value returned.
IncReturn(t) ==
    /\ thr[t].pc = "return"
    /\ LET rec == encode_kv(timestamp, thr[t].key, thr[t].value)
       IN  IF rec.ok
           THEN /\ thr' = [thr EXCEPT ![t].pc = "open", ![t].ts = timestamp,
                                      ![t].size = rec.val.size,
                                      ![t].datum = rec.val.datum]
                /\ ret' = ret
           ELSE /\ thr' = [thr EXCEPT ![t].pc = "raised", ![t].ts = timestamp]
                /\ ret' = [op |-> "set", key |-> thr[t].key, ok |-> FALSE,
                           val |-> <<>>, err |-> rec.err, opened |-> FALSE]
    /\ UNCHANGED <<fileVars, timestamp, key_dir, status, hist, base, calls, codecVars>>

\* open(self.file_name, 'ab') creates a missing file; pos = file.tell().
OpenTell(t) ==
    /\ thr[t].pc = "open"
    /\ exists' = TRUE
    /\ thr' = [thr EXCEPT ![t].pc = "update", ![t].pos = AppendPos(file)]
    /\ UNCHANGED <<file, timestamp, key_dir, status, hist, base, calls, ret, codecVars>>

\* Mutant: the directory is not updated before the write.
UpdateDir_Deferred(t) ==
    /\ thr[t].pc = "update"
    /\ thr' = [thr EXCEPT ![t].pc = "write"]
    /\ UNCHANGED <<engineVars, codecVars>>

\* self.key_dir[key] = (self.file_name, datum_sz + 12, pos, timestamp).
UpdateDir(t) ==
    /\ thr[t].pc = "update"
    /\ key_dir' = (thr[t].key :> SetEntry(thr[t].size, thr[t].pos, thr[t].ts)) @@ key_dir
    /\ thr' = [thr EXCEPT ![t].pc = "write"]
    /\ UNCHANGED <<fileVars, timestamp, status, hist, base, calls, ret, codecVars>>

\* file.write(datum) and the close of the with block: the bytes reach the end
\* of the file as it is then.
Write(t) ==
    /\ thr[t].pc = "write"
    /\ file' = AppendBytes(file, thr[t].datum)
    /\ hist' = Append(hist, [key |-> thr[t].key, value |-> thr[t].value,
                             n |-> thr[t].n, pos |-> Len(file),
                             datum |-> thr[t].datum])
    /\ thr' = [thr EXCEPT ![t].pc = "done"]
    /\ ret' = [op |-> "set", key |-> thr[t].key, ok |-> TRUE, val |-> <<>>,
               err |-> "none", opened |-> TRUE]
    /\ UNCHANGED <<exists, timestamp, key_dir, status, base, calls, codecVars>>

\* The write raises OSError after n of the record's bytes reached the file.
WriteFails(t, n) ==
    /\ thr[t].pc = "write"
    /\ n < Len(thr[t].datum)
    /\ file' = AppendBytes(file, Slice(thr[t].datum, 0, n))
    /\ thr' = [thr EXCEPT ![t].pc = "failed"]
    /\ ret' = [op |-> "set", key |-> thr[t].key, ok |-> FALSE, val |-> <<>>,
               err |-> "OSError", opened |-> TRUE]
    /\ UNCHANGED <<exists, timestamp, key_dir, status, hist, base, calls, codecVars>>

\* The byte counts a failing write is tried with: nothing, and all but the
\* last byte.
FailPoints(t) == {0, Len(thr[t].datum) - 1}

StepGet(key) == Quiescent /\ Get(key)

NextSteps ==
    \/ \E t \in Threads, w \in StepWrites : Call(t, w.key, w.value)
    \/ \E t \in Threads : IncLoad(t)
    \/ \E t \in Threads : IncStore(t)
    \/ \E t \in Threads : IncReturn(t)
    \/ \E t \in Threads : OpenTell(t)
    \/ \E t \in Threads : UpdateDir(t)
    \/ \E t \in Threads : Write(t)
    \/ \E t \in Threads : \E n \in FailPoints(t) : WriteFails(t, n)
    \/ \E key \in StepKeys : StepGet(key)

SpecSteps == InitSteps /\ [][NextSteps]_vars

\* The directory entry the call of thread t computes.
EntryOf(t) == SetEntry(thr[t].size, thr[t].pos, thr[t].ts)

\* The bytes the file holds where the entry of thread t points.
BytesAtEntry(t) == Slice(file, thr[t].pos, thr[t].pos + Len(thr[t].datum))

\* One thread calls the engine.
SingleCaller == thr[2].pc = "off"

\* The positions of hist written for the key of thread t by earlier calls.
Earlier(t) == {i \in 1..Len(hist) : hist[i].key = thr[t].key /\ hist[i].n < thr[t].n}

C14_ConcurrentSetUnsafe ==
    pc = "steps" =>
        \A t \in Threads :
            (/\ Quiescent
             /\ thr[t].pc = "done"
             /\ thr[t].key \in DOMAIN key_dir
             /\ key_dir[thr[t].key] = EntryOf(t)
             /\ BytesAtEntry(t) # thr[t].datum)
            => /\ ~SingleCaller
               /\ LET r == get(thr[t].key)
                  IN  /\ ~r.ok \/ r.val # thr[t].value
                      /\ file = ConcatData(hist) =>
                             \/ ~r.ok
                             \/ \E i \in 1..Len(hist) :
                                    /\ hist[i].n # thr[t].n
                                    /\ hist[i].key = thr[t].key
                                    /\ hist[i].value = r.val
                                    /\ hist[i].pos = thr[t].pos

\* Both threads observed the same end-of-file offset and wrote the same key:
\* get returns the value of the thread that wrote first, not the value of the
\* set that wrote last.
C14_Witness ==
    /\ pc = "steps"
    /\ thr[1].pc = "done" /\ thr[2].pc = "done"
    /\ thr[1].pos = thr[2].pos
    /\ thr[1].key = thr[2].key
    /\ thr[1].value # thr[2].value
    /\ \E t \in Threads :
           /\ hist[Len(hist)].n = thr[t].n
           /\ key_dir[thr[t].key] = EntryOf(t)
           /\ BytesAtEntry(t) # thr[t].datum
           /\ ret.op = "get" /\ ret.key = thr[t].key /\ ret.ok
           /\ ret.val # thr[t].value

====
